---- MODULE Spec2Model ----
(***************************************************************************)
(* State-machine model of the video processor's request handlers           *)
(* (src/routes/video.js) and of the Auth Hub token cache                    *)
(* (src/utils/authHub.js).                                                  *)
(*                                                                          *)
(* The model follows one request through its handler, in a process whose   *)
(* token cache may hold an entry of an earlier request.  Every action is    *)
(* the synchronous run of a handler from one await (or event callback) to  *)
(* the next; the answers of the remote collaborators, of the filesystem    *)
(* and of the transcoding process are chosen nondeterministically.         *)
(*                                                                          *)
(* Three components are also modelled on their own, each under its own      *)
(* specification: the multipart encoder of uploadToS3Form (SpecForm), the   *)
(* naming of scratch paths by two concurrent invocations (SpecPaths) and    *)
(* the process runner runFFmpeg (SpecRun).                                  *)
(***************************************************************************)
EXTENDS Integers, Sequences, FiniteSets, TLC

VARIABLES
  pc,                 \* position of the handler of the current request
  route,              \* "merge-and-upload" | "get-inspections"
  hasVideoPart,       \* the multipart body holds a part named videoFile
  fieldsOk,           \* all required fields / query params are present
  explainerVideoId,   \* TRUE iff fields.explainerVideoId is truthy
  taskData,           \* "absent" (or any text JSON.parse accepts) | "invalid"
  shopId,             \* the tenant of the request
  unlinkFails,        \* kinds of scratch files whose deletion fails (injected)
  supabaseConfigured, \* SUPABASE_URL and SUPABASE_ANON_KEY are set
  fs,                 \* scratch paths that exist on disk
  fsBefore,           \* fs when the current request was received
  writeFinished,      \* 'finish' of the upload write stream has fired
  videoFile,          \* parseMultipart's closure variable (a path or NoPath)
  parsedVideoFile,    \* videoFile as destructured by the handler
  needsCleanup,       \* the handler's list of paths
  finalVideoPath,
  uploadedFile,       \* the path handed to uploadToS3Form
  calls,              \* how often each external operation was started
  stageOk,            \* the transcode stages that exited with code 0
  hops,               \* redirects followed by downloadFile
  cleanupCount,       \* calls of cleanup(needsCleanup) in this request
  response,           \* what was sent to the caller
  respCount,          \* number of responses sent for this request
  tokenCache,         \* authHub's Map: shopId -> entry
  now,                \* Date.now(), in units of 150 s
  jwtToken,           \* the handler's jwtToken ("" before it is assigned)
  explainer,          \* what getExplainerVideoUrl returned
  videoData,          \* shape of the create-upload-target answer
  uploadStatus,       \* status the object store answered (0: none)
  patchStatus,        \* status the metadata patch answered (0: none)
  error,              \* where the handler's catch block was entered from
  downloadStatus,     \* status of the last answer to downloadFile (0: none)
  emptyFiles,         \* the scratch files that hold no bytes once written
  destAtSettle,       \* "none", or whether destPath existed when downloadFile
                      \* rejected: "present" | "absent"
  \* uploadToS3Form on its own (SpecForm)
  fmPhase,            \* "idle" | "streaming" | "sent" | "settled"
  fmSupplied,         \* s3Fields as the signing authority wrote them:
                      \* a sequence of <<name, value>>
  fmKey,              \* s3Key
  fmFileSize,         \* bytes of the file on disk
  fmDeclared,         \* the Content-Length header
  fmBody,             \* the pieces written to the request so far
  fmRead,             \* bytes of the file read so far
  fmResponse,         \* the answer of the storage host: status and body
  fmResult,           \* how the promise settled
  \* scratch path naming by two invocations (SpecPaths)
  ptClock,            \* Date.now() in ms
  ptStep,             \* per invocation: how many paths it has generated
  ptPaths,            \* per invocation: the paths it has generated
  \* runFFmpeg on its own (SpecRun)
  ffPhase,            \* "idle" | "running" | "closed" | "spawnFailed" |
                      \* "closedUnstarted"
  ffStderr,           \* the characters captured from stderr
  ffCode,             \* the code 'close' reported
  ffProgress,         \* the Progress lines logged
  ffResult,           \* how the promise settled
  \* POST /merge-only (SpecMergeOnly)
  moPc,               \* where the handler is
  moHasVideo,         \* the request holds a videoFile part
  moHasId,            \* the request holds explainerVideoId
  moFs,               \* the scratch files on disk
  moNeedsCleanup,     \* needsCleanup of the handler
  moStatus            \* the status answered (0: none yet)

vars == <<pc, route, hasVideoPart, fieldsOk, explainerVideoId, taskData,
          shopId, unlinkFails, supabaseConfigured, fs, fsBefore,
          writeFinished, videoFile, parsedVideoFile, needsCleanup,
          finalVideoPath, uploadedFile, calls, stageOk, hops, cleanupCount,
          response, respCount, tokenCache, now, jwtToken, explainer, videoData,
          uploadStatus, patchStatus, error, downloadStatus, destAtSettle,
          emptyFiles, fmPhase, fmSupplied, fmKey, fmFileSize, fmDeclared, fmBody, fmRead,
          fmResponse, fmResult, ptClock, ptStep, ptPaths, ffPhase, ffStderr, ffCode,
          ffProgress, ffResult, moPc, moHasVideo, moHasId, moFs, moNeedsCleanup,
          moStatus>>

\* the state of the request handlers
mainVars == <<pc, route, hasVideoPart, fieldsOk, explainerVideoId, taskData,
              shopId, unlinkFails, supabaseConfigured, fs, fsBefore,
              writeFinished, videoFile, parsedVideoFile, needsCleanup,
              finalVideoPath, uploadedFile, calls, stageOk, hops, cleanupCount,
              response, respCount, tokenCache, now, jwtToken, explainer,
              videoData, uploadStatus, patchStatus, error, downloadStatus,
              destAtSettle, emptyFiles>>

formVars == <<fmPhase, fmSupplied, fmKey, fmFileSize, fmDeclared, fmBody, fmRead,
              fmResponse, fmResult>>
pathVars == <<ptClock, ptStep, ptPaths>>
runVars  == <<ffPhase, ffStderr, ffCode, ffProgress, ffResult>>

\* what downloadFile last saw
dlVars == <<downloadStatus, destAtSettle>>

mergeOnlyVars == <<moPc, moHasVideo, moHasId, moFs, moNeedsCleanup, moStatus>>

\* the components modelled on their own
auxVars == <<formVars, pathVars, runVars, mergeOnlyVars>>

\* the request's inputs and the process environment
inputVars == <<route, hasVideoPart, fieldsOk, explainerVideoId, taskData,
               shopId, unlinkFails, supabaseConfigured, fsBefore>>

(***************************************************************************)
(* Bounds of the model                                                      *)
(***************************************************************************)
MaxTime     == 2   \* the clock stops here
MaxHops     == 1   \* redirects of one download that are counted
MaxFaults   == 1   \* kinds of scratch files with a failing unlink
MaxExpiry   == 3   \* token_expires_at is at most this far ahead
MaxFields   == 2   \* signed form fields of one upload target
MaxFileSize == 2   \* bytes of an uploaded file
MaxChunks   == 3   \* 'data' events of one process's stderr
MaxClock    == 2   \* milliseconds that pass while two requests run

(***************************************************************************)
(* Program constants, in clock units of 150 s                               *)
(***************************************************************************)
CACHE_TTL_MS == 2
TOKEN_EXPIRY_BUFFER_MS == 2

Shops == {"s1", "s2"}
Kinds == {"upload", "explainer", "merged", "temp1", "temp2"}
Ops   == {"lookup", "download", "stage1", "stage2", "stage3", "auth",
          "presign", "upload", "patch", "search", "inspections"}

NoPath == "none"

\* path.join(os.tmpdir(), `<kind>-${Date.now()}...`) of the request
Path(kind) == kind

\* tokenCache.get(shopId) === undefined
NoEntry == [token |-> "", cacheExpiresAt |-> 0, tokenExpiresAt |-> 0]

\* what an earlier request for shop s1 may have left in the cache at time 0:
\* nothing, or a token stored just now, with or without a declared expiry
CachedBefore ==
  {NoEntry} \cup
  {[token |-> "jwt", cacheExpiresAt |-> CACHE_TTL_MS, tokenExpiresAt |-> x] :
     x \in 0..MaxExpiry}

NoResp == [status |-> 0, success |-> FALSE, merged |-> FALSE, error |-> "none"]

Bump(op) == [calls EXCEPT ![op] = @ + 1]

(***************************************************************************)
(* cleanup(files): for each path, unlink it if it exists; a failing unlink  *)
(* is caught and logged, and the loop goes on.                              *)
(***************************************************************************)
unlinkSync(p, fsys) == IF p \in unlinkFails THEN fsys ELSE fsys \ {p}

\* a faulty variant: the first deletion that fails ends the pass
RECURSIVE cleanupUntilFailure(_, _)
cleanupUntilFailure(files, fsys) ==
  IF files = <<>> THEN fsys
  ELSE IF Head(files) \in fsys /\ Head(files) \in unlinkFails THEN fsys
  ELSE cleanupUntilFailure(Tail(files), fsys \ {Head(files)})

RECURSIVE cleanup(_, _)
cleanup(files, fsys) ==
  IF files = <<>> THEN fsys
  ELSE cleanup(Tail(files),
               IF Head(files) \in fsys THEN unlinkSync(Head(files), fsys) ELSE fsys)

\* res.status(s).json(body)
Respond(status, success, merged, err) ==
  /\ response' = [status |-> status, success |-> success, merged |-> merged,
                  error |-> err]
  /\ respCount' = respCount + 1

\* a faulty variant: after the catch block has answered, the handler goes on
\* with the credential stage
CatchErrorResumes(fsys, where) ==
  /\ fs' = cleanup(needsCleanup, fsys)
  /\ cleanupCount' = cleanupCount + 1
  /\ Respond(500, FALSE, FALSE, "Video processing failed")
  /\ error' = where
  /\ pc' = "credential"

\* catch (error) of merge-and-upload: cleanup(needsCleanup), then 500
CatchError(fsys, where) ==
  /\ fs' = cleanup(needsCleanup, fsys)
  /\ cleanupCount' = cleanupCount + 1
  /\ Respond(500, FALSE, FALSE, "Video processing failed")
  /\ error' = where
  /\ pc' = "done"

\* catch (error) of get-inspections: 500 INTERNAL_ERROR
CatchErrorGI(where) ==
  /\ Respond(500, FALSE, FALSE, "INTERNAL_ERROR")
  /\ error' = where
  /\ pc' = "done"

\* a promise that has not settled
NoResult == [kind |-> "pending", status |-> 0, body |-> ""]
NoExit == [kind |-> "pending", code |-> -1, tail |-> <<>>]
NoResponse == [status |-> 0, body |-> ""]

\* the components modelled on their own, before they are used
FormIdle ==
  /\ fmPhase = "idle" /\ fmSupplied = <<>> /\ fmKey = <<>> /\ fmFileSize = 0
  /\ fmDeclared = 0 /\ fmBody = <<>> /\ fmRead = 0
  /\ fmResponse = NoResponse /\ fmResult = NoResult
PathIdle ==
  /\ ptClock = 0
  /\ ptStep = [i \in 1..2 |-> 0]
  /\ ptPaths = [i \in 1..2 |-> {}]
RunIdle ==
  /\ ffPhase = "idle" /\ ffStderr = <<>> /\ ffCode = -1 /\ ffProgress = 0
  /\ ffResult = NoExit

MergeOnlyIdle ==
  /\ moPc = "idle" /\ moHasVideo = FALSE /\ moHasId = FALSE /\ moFs = {}
  /\ moNeedsCleanup = <<>> /\ moStatus = 0

MainInit ==
  /\ pc = "idle"
  /\ route = "merge-and-upload"
  /\ hasVideoPart = FALSE
  /\ fieldsOk = FALSE
  /\ explainerVideoId = FALSE
  /\ taskData = "absent"
  /\ shopId = "s1"
  /\ unlinkFails \in {S \in SUBSET Kinds : Cardinality(S) <= MaxFaults}
  /\ supabaseConfigured \in BOOLEAN
  /\ fs = {}
  /\ fsBefore = {}
  /\ writeFinished = FALSE
  /\ videoFile = NoPath
  /\ parsedVideoFile = NoPath
  /\ needsCleanup = <<>>
  /\ finalVideoPath = NoPath
  /\ uploadedFile = NoPath
  /\ calls = [o \in Ops |-> 0]
  /\ stageOk = {}
  /\ hops = 0
  /\ cleanupCount = 0
  /\ response = NoResp
  /\ respCount = 0
  /\ \E e \in CachedBefore : tokenCache = [s \in Shops |-> IF s = "s1" THEN e ELSE NoEntry]
  /\ now = 0
  /\ jwtToken = ""
  /\ explainer = "none"
  /\ videoData = "none"
  /\ uploadStatus = 0
  /\ patchStatus = 0
  /\ error = "none"
  /\ downloadStatus = 0
  /\ destAtSettle = "none"
  /\ emptyFiles = {}

Init == MainInit /\ FormIdle /\ PathIdle /\ RunIdle /\ MergeOnlyIdle

(***************************************************************************)
(* A request arrives.  For merge-and-upload the handler calls              *)
(* parseMultipart; busboy's 'file' event opens the write stream, which      *)
(* creates upload-<now>-<name> in the scratch directory.                    *)
(***************************************************************************)
StartRequest ==
  /\ pc = "idle"
  /\ route' \in {"merge-and-upload", "get-inspections"}
  /\ fieldsOk' \in BOOLEAN
  /\ shopId' \in Shops
  /\ IF route' = "merge-and-upload"
       THEN /\ hasVideoPart' \in BOOLEAN
            /\ explainerVideoId' \in BOOLEAN
            /\ taskData' \in {"absent", "invalid"}
            /\ pc' = "parsing"
       ELSE /\ hasVideoPart' = FALSE
            /\ explainerVideoId' = FALSE
            /\ taskData' = "absent"
            /\ pc' = "giReceived"
  /\ fs' = IF hasVideoPart' THEN fs \cup {Path("upload")} ELSE fs
  /\ fsBefore' = fs
  /\ writeFinished' = FALSE
  /\ videoFile' = NoPath
  /\ parsedVideoFile' = NoPath
  /\ needsCleanup' = <<>>
  /\ finalVideoPath' = NoPath
  /\ uploadedFile' = NoPath
  /\ calls' = [o \in Ops |-> 0]
  /\ stageOk' = {}
  /\ hops' = 0
  /\ cleanupCount' = 0
  /\ response' = NoResp
  /\ respCount' = 0
  /\ jwtToken' = ""
  /\ explainer' = "none"
  /\ videoData' = "none"
  /\ uploadStatus' = 0
  /\ patchStatus' = 0
  /\ error' = "none"
  /\ downloadStatus' = 0
  /\ destAtSettle' = "none"
  /\ emptyFiles' \in IF hasVideoPart' THEN {{}, {Path("upload")}} ELSE {{}}
  /\ UNCHANGED <<auxVars, unlinkFails, supabaseConfigured, tokenCache, now>>

(***************************************************************************)
(* parseMultipart                                                           *)
(***************************************************************************)
\* writeStream.on('finish'): videoFile = { path: videoPath, ... }.  It fires
\* before the timer of busboy's 'finish', or after it (then the handler has
\* already returned).
WriteStreamFinish ==
  /\ hasVideoPart /\ ~writeFinished
  /\ pc \in {"parsing", "done"}
  /\ writeFinished' = TRUE
  /\ videoFile' = Path("upload")
  /\ UNCHANGED <<auxVars, dlVars, emptyFiles, inputVars, pc, fs, parsedVideoFile, needsCleanup, finalVideoPath,
                 uploadedFile, calls, stageOk, hops, cleanupCount, response,
                 respCount, tokenCache, now, jwtToken, explainer, videoData,
                 uploadStatus, patchStatus, error>>

\* busboy.on('error', reject): the handler's catch block runs
BusboyError ==
  /\ pc = "parsing"
  /\ CatchError(fs, "parse")
  /\ UNCHANGED <<auxVars, dlVars, emptyFiles, inputVars, writeFinished, videoFile, parsedVideoFile,
                 needsCleanup, finalVideoPath, uploadedFile, calls, stageOk, hops,
                 tokenCache, now, jwtToken, explainer, videoData, uploadStatus,
                 patchStatus>>

\* line 516: !shopId || !roId || !inspectionId || !taskId
MissingFields == ~fieldsOk

\* setTimeout(() => resolve({ fields, videoFile }), 100) fires, and the handler
\* runs from its first await to the next one (lines 506-530 or 506-555).
ParseResolve ==
  /\ pc = "parsing"
  /\ parsedVideoFile' = videoFile
  /\ IF videoFile = NoPath
       THEN \* line 510: 400 without a cleanup pass
            /\ Respond(400, FALSE, FALSE, "No video file uploaded")
            /\ pc' = "done"
            /\ UNCHANGED <<fs, needsCleanup, cleanupCount, finalVideoPath, calls>>
       ELSE IF MissingFields
         THEN /\ needsCleanup' = <<videoFile>>
              /\ fs' = cleanup(needsCleanup', fs)
              /\ cleanupCount' = cleanupCount + 1
              /\ Respond(400, FALSE, FALSE, "Missing required fields")
              /\ pc' = "done"
              /\ UNCHANGED <<finalVideoPath, calls>>
         ELSE /\ needsCleanup' = <<videoFile>>
              /\ finalVideoPath' = videoFile
              /\ IF explainerVideoId
                   THEN pc' = "lookup" /\ calls' = Bump("lookup")
                   ELSE pc' = "credential" /\ UNCHANGED calls
              /\ UNCHANGED <<fs, cleanupCount, response, respCount>>
  /\ UNCHANGED <<auxVars, dlVars, emptyFiles, inputVars, writeFinished, videoFile, uploadedFile, stageOk, hops,
                 tokenCache, now, jwtToken, explainer, videoData, uploadStatus,
                 patchStatus, error>>

(***************************************************************************)
(* getExplainerVideoUrl and the handler's test of its result                *)
(***************************************************************************)
\* what the lookup can come to: the early return of line 181, the catch of
\* line 210 (request error, JSON.parse error), an empty array, videos[0]
LookupOutcomes ==
  IF supabaseConfigured
    THEN {"requestError", "unparsable", "empty", "noFileUrl", "found"}
    ELSE {"notConfigured"}

\* lines 181-213: getExplainerVideoUrl returns videos[0], or null
getExplainerVideoUrl(o) ==
  IF o = "found" THEN "record"
  ELSE IF o = "noFileUrl" THEN "recordNoUrl"
  ELSE "null"

\* a faulty variant: the handler tests only `explainer`
UsableIgnoringUrl(e) == e # "null"

\* line 532: explainer && explainer.file_url
Usable(e) == e # "null" /\ e = "record"

LookupReturn(o) ==
  /\ pc = "lookup"
  /\ o \in LookupOutcomes
  /\ explainer' = getExplainerVideoUrl(o)
  /\ IF Usable(explainer')
       THEN \* lines 535-539: downloadFile opens the destination for writing
            /\ needsCleanup' = Append(needsCleanup, Path("explainer"))
            /\ fs' = fs \cup {Path("explainer")}
            /\ calls' = Bump("download")
            /\ pc' = "downloading"
       ELSE /\ pc' = "credential"
            /\ UNCHANGED <<needsCleanup, fs, calls>>
  /\ UNCHANGED <<auxVars, dlVars, emptyFiles, inputVars, writeFinished, videoFile, parsedVideoFile,
                 finalVideoPath, uploadedFile, stageOk, hops, cleanupCount,
                 response, respCount, tokenCache, now, jwtToken, videoData,
                 uploadStatus, patchStatus, error>>

(***************************************************************************)
(* downloadFile                                                             *)
(***************************************************************************)
\* an exception thrown in an event callback is caught by nobody: the process
\* ends, and the request is never answered
Crash ==
  /\ pc' = "crashed"
  /\ UNCHANGED <<fs, cleanupCount, response, respCount, error>>

\* the statuses the explainer's host answers with
DownloadStatuses == {200, 204, 301, 302, 307, 404}

\* line 38: response.statusCode === 301 || response.statusCode === 302
isRedirect(status) == status \in {301, 302}

\* line 43: response.statusCode !== 200
downloadRejects(status) == status # 200

\* a faulty variant: the destination file is left behind on a bad status
destKept(fsys) == fsys

\* lines 44-45: file.close(); fs.unlinkSync(destPath), the unlink succeeding
destAfterBadStatus(fsys) == fsys \ {Path("explainer")}

\* lines 38-42: 301/302; the file is unlinked and the download starts again
\* with the Location header, however many redirects came before.  (The model
\* stops counting at MaxHops.)
DownloadRedirect(status) ==
  /\ pc = "downloading"
  /\ isRedirect(status)
  /\ downloadStatus' = status
  /\ IF "explainer" \in unlinkFails
       THEN Crash /\ UNCHANGED <<hops, calls>>
       ELSE /\ hops' = IF hops < MaxHops THEN hops + 1 ELSE hops
            /\ calls' = IF hops < MaxHops THEN Bump("download") ELSE calls
            /\ UNCHANGED <<pc, fs, cleanupCount, response, respCount, error>>
  /\ UNCHANGED <<auxVars, destAtSettle, emptyFiles, inputVars, writeFinished, videoFile,
                 parsedVideoFile, needsCleanup, finalVideoPath, uploadedFile,
                 stageOk, tokenCache, now, jwtToken, explainer, videoData,
                 uploadStatus, patchStatus>>

\* lines 43-47: a status other than 200 (and 301, 302): the file is unlinked and
\* the promise rejects; the handler's catch block runs
DownloadBadStatus(status) ==
  /\ pc = "downloading"
  /\ ~isRedirect(status) /\ downloadRejects(status)
  /\ downloadStatus' = status
  /\ IF "explainer" \in unlinkFails
       THEN Crash /\ UNCHANGED destAtSettle
       ELSE /\ destAtSettle' = IF Path("explainer") \in destAfterBadStatus(fs)
                                 THEN "present" ELSE "absent"
            /\ CatchError(destAfterBadStatus(fs), "download")
  /\ UNCHANGED <<auxVars, emptyFiles, inputVars, writeFinished, videoFile, parsedVideoFile,
                 needsCleanup, finalVideoPath, uploadedFile, calls, stageOk, hops,
                 tokenCache, now, jwtToken, explainer, videoData, uploadStatus,
                 patchStatus>>

\* lines 50-54: 'error' of the request; fs.unlink's own error is ignored
DownloadRequestError ==
  /\ pc = "downloading"
  /\ CatchError(unlinkSync(Path("explainer"), fs), "download")
  /\ UNCHANGED <<auxVars, dlVars, emptyFiles, inputVars, writeFinished, videoFile, parsedVideoFile,
                 needsCleanup, finalVideoPath, uploadedFile, calls, stageOk, hops,
                 tokenCache, now, jwtToken, explainer, videoData, uploadStatus,
                 patchStatus>>

\* line 48: status 200, response.pipe(file)
DownloadOk(status) ==
  /\ pc = "downloading"
  /\ ~isRedirect(status) /\ ~downloadRejects(status)
  /\ downloadStatus' = status
  /\ pc' = "piping"
  /\ UNCHANGED <<auxVars, destAtSettle, emptyFiles, inputVars, fs, writeFinished, videoFile,
                 parsedVideoFile, needsCleanup, finalVideoPath, uploadedFile,
                 calls, stageOk, hops, cleanupCount, response, respCount,
                 tokenCache, now, jwtToken, explainer, videoData, uploadStatus,
                 patchStatus, error>>

\* line 49: file 'finish' resolves, whether or not the body held any byte;
\* lines 540-545 and 94-100: mergeVideos starts transcode stage 1
PipeFinish(bodyEmpty) ==
  /\ pc = "piping"
  /\ emptyFiles' = IF bodyEmpty THEN emptyFiles \cup {Path("explainer")}
                                ELSE emptyFiles
  /\ needsCleanup' = Append(needsCleanup, Path("merged"))
  /\ calls' = Bump("stage1")
  /\ pc' = "stage1"
  /\ UNCHANGED <<auxVars, dlVars, inputVars, fs, writeFinished, videoFile, parsedVideoFile,
                 finalVideoPath, uploadedFile, stageOk, hops, cleanupCount,
                 response, respCount, tokenCache, now, jwtToken, explainer,
                 videoData, uploadStatus, patchStatus, error>>

\* the response or the file stream fails after the 200: nothing listens, so
\* the promise never settles, or the unhandled 'error' event ends the process
PipeError ==
  /\ pc = "piping"
  /\ pc' \in {"hung", "crashed"}
  /\ UNCHANGED <<auxVars, dlVars, emptyFiles, inputVars, fs, writeFinished, videoFile, parsedVideoFile,
                 needsCleanup, finalVideoPath, uploadedFile, calls, stageOk, hops,
                 cleanupCount, response, respCount, tokenCache, now, jwtToken,
                 explainer, videoData, uploadStatus, patchStatus, error>>

(***************************************************************************)
(* runFFmpeg and mergeVideos                                                *)
(***************************************************************************)
StageOutcomes == {"exit0", "exitNonZero", "spawnError"}

\* a faulty variant: every way the process ends counts as success
runFFmpegAlwaysResolves(o) == TRUE

\* lines 74-79: resolve iff 'close' reports code 0
runFFmpegResolves(o) == o = "exit0"

StageOf(p) == IF p = "stage1" THEN 1 ELSE IF p = "stage2" THEN 2 ELSE 3

\* the file a stage writes: tempVideo1, tempVideo2, outputPath
StageOutput(k) ==
  IF k = 1 THEN Path("temp1") ELSE IF k = 2 THEN Path("temp2") ELSE Path("merged")

\* a faulty variant: the finally block deletes nothing
mergeFinallySkipped(fsys) == fsys

\* lines 134-138: finally { try unlink temp1; try unlink temp2 }
mergeFinally(fsys) == unlinkSync(Path("temp2"), unlinkSync(Path("temp1"), fsys))

\* the transcoding process of stage k ends; `partial` says whether a failed
\* process left an output file behind
StageExit(o, partial) ==
  /\ pc \in {"stage1", "stage2", "stage3"}
  /\ LET k == StageOf(pc)
         written == IF o = "exit0" \/ (o = "exitNonZero" /\ partial)
                      THEN fs \cup {StageOutput(k)} ELSE fs
     IN IF runFFmpegResolves(o)
          THEN /\ stageOk' = IF o = "exit0" THEN stageOk \cup {k} ELSE stageOk
               /\ IF k < 3
                    THEN /\ fs' = written
                         /\ calls' = Bump(IF k = 1 THEN "stage2" ELSE "stage3")
                         /\ pc' = IF k = 1 THEN "stage2" ELSE "stage3"
                         /\ UNCHANGED finalVideoPath
                    ELSE \* lines 131-138 and 546-555
                         /\ fs' = mergeFinally(written)
                         /\ finalVideoPath' = Path("merged")
                         /\ pc' = "credential"
                         /\ UNCHANGED calls
               /\ UNCHANGED <<cleanupCount, response, respCount, error>>
          ELSE /\ CatchError(mergeFinally(written), "merge")
               /\ UNCHANGED <<stageOk, calls, finalVideoPath>>
  /\ UNCHANGED <<auxVars, dlVars, emptyFiles, inputVars, writeFinished, videoFile, parsedVideoFile,
                 needsCleanup, uploadedFile, hops, tokenCache, now, jwtToken,
                 explainer, videoData, uploadStatus, patchStatus>>

(***************************************************************************)
(* authHub.js: isTokenValid and getJWTToken                                 *)
(***************************************************************************)
\* a faulty variant: only the cache TTL is looked at
isTokenValidTtlOnly(cached) ==
  IF cached = NoEntry THEN FALSE ELSE now < cached.cacheExpiresAt

\* lines 16-32
isTokenValid(cached) ==
  IF cached = NoEntry THEN FALSE
  ELSE IF now >= cached.cacheExpiresAt THEN FALSE
  ELSE IF cached.tokenExpiresAt # 0
          /\ now >= cached.tokenExpiresAt - TOKEN_EXPIRY_BUFFER_MS THEN FALSE
  ELSE TRUE

\* the handler goes on with the value getJWTToken resolved to:
\* get-inspections lines 353-364, merge-and-upload lines 556-571
AfterToken(tok) ==
  /\ jwtToken' = tok
  /\ IF route = "get-inspections"
       THEN IF tok = ""
              THEN /\ Respond(401, FALSE, FALSE, "NO_TOKEN")
                   /\ pc' = "done"
                   /\ UNCHANGED <<calls, fs, cleanupCount, error>>
              ELSE /\ calls' = Bump("search")
                   /\ pc' = "giSearch"
                   /\ UNCHANGED <<fs, cleanupCount, response, respCount, error>>
       ELSE IF tok = ""
              THEN CatchError(fs, "credential") /\ UNCHANGED calls
              ELSE /\ calls' = Bump("presign")
                   /\ pc' = "presign"
                   /\ UNCHANGED <<fs, cleanupCount, response, respCount, error>>

\* getJWTToken rejects: the catch block of the calling handler runs
TokenRejected ==
  /\ UNCHANGED jwtToken
  /\ IF route = "get-inspections"
       THEN CatchErrorGI("credential") /\ UNCHANGED <<fs, cleanupCount>>
       ELSE CatchError(fs, "credential")

\* lines 42-63 and 126: cache hit, or the stale entry is dropped and the
\* Auth Hub is asked; appKey: process.env.AUTH_HUB_APP_KEY is set at the call
GetToken(appKey) ==
  /\ pc = "credential"
  /\ LET cached == tokenCache[shopId]
     IN IF isTokenValid(cached)
          THEN AfterToken(cached.token) /\ UNCHANGED tokenCache
          ELSE /\ tokenCache' = [tokenCache EXCEPT ![shopId] = NoEntry]
               /\ IF ~appKey
                    THEN TokenRejected /\ UNCHANGED calls
                    ELSE /\ calls' = Bump("auth")
                         /\ pc' = "authWait"
                         /\ UNCHANGED <<jwtToken, fs, cleanupCount, response,
                                        respCount, error>>
  /\ UNCHANGED <<auxVars, dlVars, emptyFiles, inputVars, writeFinished, videoFile, parsedVideoFile,
                 needsCleanup, finalVideoPath, uploadedFile, stageOk, hops, now,
                 explainer, videoData, uploadStatus, patchStatus>>

AuthOutcomes == {"ok", "non2xx", "noToken", "unparsable", "netError", "timeout"}

\* lines 82-124: the Auth Hub answers, fails or times out; `exp` is
\* token_expires_at (0: not declared)
AuthRespond(o, exp) ==
  /\ pc = "authWait"
  /\ o \in AuthOutcomes
  /\ IF o = "ok"
       THEN /\ tokenCache' = [tokenCache EXCEPT ![shopId] =
                                [token |-> "jwt",
                                 cacheExpiresAt |-> now + CACHE_TTL_MS,
                                 tokenExpiresAt |-> exp]]
            /\ AfterToken("jwt")
       ELSE /\ exp = 0
            /\ TokenRejected /\ UNCHANGED <<tokenCache, calls>>
  /\ UNCHANGED <<auxVars, dlVars, emptyFiles, inputVars, writeFinished, videoFile, parsedVideoFile,
                 needsCleanup, finalVideoPath, uploadedFile, stageOk, hops, now,
                 explainer, videoData, uploadStatus, patchStatus>>

\* Date.now() is read by getJWTToken only.  A token that is stale stays stale,
\* so time that passes while the Auth Hub is asked may as well pass before.
Tick ==
  /\ pc = "credential"
  /\ now < MaxTime
  /\ now' = now + 1
  /\ UNCHANGED <<auxVars, dlVars, emptyFiles, inputVars, pc, fs, writeFinished, videoFile, parsedVideoFile,
                 needsCleanup, finalVideoPath, uploadedFile, calls, stageOk, hops,
                 cleanupCount, response, respCount, tokenCache, jwtToken,
                 explainer, videoData, uploadStatus, patchStatus, error>>

(***************************************************************************)
(* proxyToTM, and the create-upload-target, upload and patch steps          *)
(***************************************************************************)
\* proxyToTM resolves with whatever status the remote side sent, and rejects
\* only on the request's 'error' event (status 0 here)
proxyToTMResolves(status) == status # 0

\* shapes of a 200 body: not JSON, no data[0], data[0] without s3, a
\* PUT-style target { url } (flat, or as s3: { url }), a POST-style target
PresignShapes == {"unparsable", "noData", "noS3", "putFlat", "putS3", "post"}

\* lines 579-583: JSON.parse, videoData = data?.[0], !videoData || !videoData.s3
HasS3(shape) == shape \in {"putS3", "post"}

\* line 231: Object.entries(s3Fields) throws for a target without fields
HasFields(shape) == shape = "post"

PresignRespond(status, shape) ==
  /\ pc = "presign"
  /\ status \in {0, 200, 500}
  /\ shape \in PresignShapes
  /\ status # 200 => shape = "unparsable"
  /\ videoData' = IF status = 200 THEN shape ELSE "none"
  /\ IF ~proxyToTMResolves(status) \/ status # 200 \/ ~HasS3(shape)
       THEN CatchError(fs, "presign") /\ UNCHANGED <<calls, uploadedFile>>
       ELSE IF ~HasFields(shape)
         THEN \* uploadToS3Form is called and throws before any request
              /\ uploadedFile' = finalVideoPath
              /\ CatchError(fs, "upload")
              /\ UNCHANGED calls
         ELSE /\ uploadedFile' = finalVideoPath
              /\ calls' = Bump("upload")
              /\ pc' = "uploading"
              /\ UNCHANGED <<fs, cleanupCount, response, respCount, error>>
  /\ UNCHANGED <<auxVars, dlVars, emptyFiles, inputVars, writeFinished, videoFile, parsedVideoFile,
                 needsCleanup, finalVideoPath, stageOk, hops, tokenCache, now,
                 jwtToken, explainer, uploadStatus, patchStatus>>

\* a faulty variant: every answer of the object store counts as success
uploadAcceptsAny(status) == status # 0

\* a faulty variant: only 200 counts as success, as in the direct PUT
uploadSucceedsOnly200(status) == status = 200

\* a faulty variant: however the upload ends, the handler goes on
uploadSucceedsAlways(status) == TRUE

\* line 262 (0: 'error' of the request or of the file stream)
uploadSucceeds(status) == status \in {200, 201, 204}

\* a faulty variant: the handler checks the patch's status as it checks the target's
patchAcceptedOnly200(status) == status = 200

\* lines 617-622: the awaited result of the patch is not looked at
patchAccepted(status) == proxyToTMResolves(status)

\* a faulty variant: merged reports whether the merged file is what was uploaded
mergedIffMergedUploaded == uploadedFile = Path("merged")

\* a faulty variant: merged is always reported
mergedAlways == TRUE

\* line 631: merged: !!explainerVideoId
mergedFlag == explainerVideoId

\* a faulty variant: a failed upload is sent once more
UploadFailsRetried ==
  /\ calls["upload"] < 2
  /\ calls' = Bump("upload")
  /\ UNCHANGED <<pc, fs, cleanupCount, response, respCount, error>>

\* lines 593 and 634-641: the rejection of uploadToS3Form is caught by the
\* handler's catch block; nothing sends the request again
UploadFails == CatchError(fs, "upload") /\ UNCHANGED calls

UploadRespond(status) ==
  /\ pc = "uploading"
  /\ status \in {0, 200, 201, 204, 403}
  /\ uploadStatus' = status
  /\ IF ~uploadSucceeds(status)
       THEN UploadFails
       ELSE IF taskData = "invalid"
         THEN \* line 596: JSON.parse(taskData) throws
              CatchError(fs, "taskData") /\ UNCHANGED calls
         ELSE /\ calls' = Bump("patch")
              /\ pc' = "patching"
              /\ UNCHANGED <<fs, cleanupCount, response, respCount, error>>
  /\ UNCHANGED <<auxVars, dlVars, emptyFiles, inputVars, writeFinished, videoFile, parsedVideoFile,
                 needsCleanup, finalVideoPath, uploadedFile, stageOk, hops,
                 tokenCache, now, jwtToken, explainer, videoData, patchStatus>>

\* lines 617-632
PatchRespond(status) ==
  /\ pc = "patching"
  /\ status \in {0, 200, 500}
  /\ patchStatus' = status
  /\ IF ~patchAccepted(status)
       THEN CatchError(fs, "patch")
       ELSE /\ fs' = cleanup(needsCleanup, fs)
            /\ cleanupCount' = cleanupCount + 1
            /\ Respond(200, TRUE, mergedFlag, "none")
            /\ pc' = "done"
            /\ UNCHANGED error
  /\ UNCHANGED <<auxVars, dlVars, emptyFiles, inputVars, writeFinished, videoFile, parsedVideoFile,
                 needsCleanup, finalVideoPath, uploadedFile, calls, stageOk, hops,
                 tokenCache, now, jwtToken, explainer, videoData, uploadStatus>>

(***************************************************************************)
(* GET /get-inspections                                                     *)
(***************************************************************************)
\* lines 346-352
GIValidate ==
  /\ pc = "giReceived"
  /\ IF MissingFields
       THEN /\ Respond(400, FALSE, FALSE, "Missing required params")
            /\ pc' = "done"
       ELSE /\ pc' = "credential"
            /\ UNCHANGED <<response, respCount>>
  /\ UNCHANGED <<auxVars, dlVars, emptyFiles, inputVars, fs, writeFinished, videoFile, parsedVideoFile,
                 needsCleanup, finalVideoPath, uploadedFile, calls, stageOk, hops,
                 cleanupCount, tokenCache, now, jwtToken, explainer, videoData,
                 uploadStatus, patchStatus, error>>

\* lines 359-392: the repair-order search answers
GISearchRespond(status, body) ==
  /\ pc = "giSearch"
  /\ status \in {0, 200, 403}
  /\ body \in {"unparsable", "notFound", "found"}
  /\ status # 200 => body = "unparsable"
  /\ IF ~proxyToTMResolves(status) \/ (status = 200 /\ body = "unparsable")
       THEN CatchErrorGI("search") /\ UNCHANGED calls
       ELSE IF status # 200
         THEN /\ Respond(status, FALSE, FALSE, "RO_SEARCH_FAILED")
              /\ pc' = "done"
              /\ UNCHANGED <<calls, error>>
         ELSE IF body = "notFound"
           THEN /\ Respond(404, FALSE, FALSE, "RO_NOT_FOUND")
                /\ pc' = "done"
                /\ UNCHANGED <<calls, error>>
           ELSE /\ calls' = Bump("inspections")
                /\ pc' = "giInspections"
                /\ UNCHANGED <<response, respCount, error>>
  /\ UNCHANGED <<auxVars, dlVars, emptyFiles, inputVars, fs, writeFinished, videoFile, parsedVideoFile,
                 needsCleanup, finalVideoPath, uploadedFile, stageOk, hops,
                 cleanupCount, tokenCache, now, jwtToken, explainer, videoData,
                 uploadStatus, patchStatus>>

\* lines 394-478: the inspections request answers
GIInspectionsRespond(status, parsable) ==
  /\ pc = "giInspections"
  /\ status \in {0, 200, 403}
  /\ status # 200 => parsable
  /\ IF ~proxyToTMResolves(status) \/ ~parsable
       THEN CatchErrorGI("inspections")
       ELSE /\ IF status # 200
                 THEN Respond(status, FALSE, FALSE, "INSPECTIONS_FETCH_FAILED")
                 ELSE Respond(200, TRUE, FALSE, "none")
            /\ pc' = "done"
            /\ UNCHANGED error
  /\ UNCHANGED <<auxVars, dlVars, emptyFiles, inputVars, fs, writeFinished, videoFile, parsedVideoFile,
                 needsCleanup, finalVideoPath, uploadedFile, calls, stageOk, hops,
                 cleanupCount, tokenCache, now, jwtToken, explainer, videoData,
                 uploadStatus, patchStatus>>

Next ==
  \/ StartRequest
  \/ WriteStreamFinish
  \/ BusboyError
  \/ ParseResolve
  \/ \E o \in LookupOutcomes : LookupReturn(o)
  \/ \E status \in DownloadStatuses : DownloadRedirect(status)
  \/ \E status \in DownloadStatuses : DownloadBadStatus(status)
  \/ DownloadRequestError
  \/ \E status \in DownloadStatuses : DownloadOk(status)
  \/ \E bodyEmpty \in BOOLEAN : PipeFinish(bodyEmpty)
  \/ PipeError
  \/ \E o \in StageOutcomes, partial \in BOOLEAN : StageExit(o, partial)
  \/ \E appKey \in BOOLEAN : GetToken(appKey)
  \/ \E o \in AuthOutcomes, exp \in {0} \cup ((now + 1)..(now + MaxExpiry)) :
       AuthRespond(o, exp)
  \/ Tick
  \/ \E status \in {0, 200, 500}, shape \in PresignShapes :
       PresignRespond(status, shape)
  \/ \E status \in {0, 200, 201, 204, 403} : UploadRespond(status)
  \/ \E status \in {0, 200, 500} : PatchRespond(status)
  \/ GIValidate
  \/ \E status \in {0, 200, 403}, body \in {"unparsable", "notFound", "found"} :
       GISearchRespond(status, body)
  \/ \E status \in {0, 200, 403}, parsable \in BOOLEAN :
       GIInspectionsRespond(status, parsable)

Spec == Init /\ [][Next]_vars

(***************************************************************************)
(* Properties                                                               *)
(***************************************************************************)
MU == route = "merge-and-upload"
DoneMU == MU /\ pc = "done"
Transcodes == calls["stage1"] + calls["stage2"] + calls["stage3"]

\* the create-upload-target call failed: request error, non-200, or a body
\* that holds no target
TargetFailed ==
  calls["presign"] > 0 /\ videoData \in {"none", "unparsable", "noData", "noS3"}
\* the upload request was sent and did not end in 200, 201 or 204
UploadFailed == calls["upload"] > 0 /\ uploadStatus \notin {200, 201, 204}
\* the patch request was sent and got no answer at all
PatchTransportFailed == calls["patch"] > 0 /\ patchStatus = 0
\* the patch request was answered with a status outside 2xx
PatchNon2xx == calls["patch"] > 0 /\ patchStatus # 0 /\ patchStatus \notin 200..299
FailureResponse ==
  response.status = 500 /\ ~response.success /\ respCount = 1 /\ cleanupCount = 1

\* C1 (as claimed): when a merge-and-upload run has ended, the scratch files
\* on disk are those that were there before it started.  Stated for runs in
\* which no deletion fails, so that an injected filesystem fault is not what
\* refutes it.
C1_CleanupTotality == (DoneMU /\ unlinkFails = {}) => fs = fsBefore

\* C2 (as claimed): an explainer id was supplied, the lookup found nothing,
\* and the request succeeded: then the outcome reports merged = false and the
\* uploaded file is the received video.
C2_NotFoundReportsUnmerged ==
  (DoneMU /\ explainerVideoId /\ explainer = "null" /\ response.status = 200)
    => (~response.merged /\ uploadedFile = Path("upload"))

\* C3: stage 3 is started only after stages 1 and 2 exited with code 0, and
\* the upload is started only if the merge, when started, ran all three
\* stages to success.
C3_StageGating ==
  /\ calls["stage3"] > 0 => {1, 2} \subseteq stageOk
  /\ calls["stage2"] > 0 => 1 \in stageOk
  /\ (calls["upload"] > 0 \/ uploadedFile # NoPath)
       => (calls["stage1"] > 0 => stageOk = {1, 2, 3})

C3_Witness == calls["upload"] > 0 /\ stageOk = {1, 2, 3}

\* C4 (as claimed): a failure of the upload-target request, of the upload or
\* of the metadata patch (a non-2xx status included) ends in a failure
\* response after a cleanup pass.
C4_AnyFailureTerminal ==
  (DoneMU /\ (TargetFailed \/ UploadFailed \/ PatchTransportFailed \/ PatchNon2xx))
    => FailureResponse

\* C4 (amended): a failure of the upload-target request or of the upload, or
\* a metadata patch request that gets no HTTP answer, ends in a 500 response
\* after exactly one cleanup pass; a patch answered with a non-2xx status is
\* not a failure.
C4_TransportFailureTerminal ==
  (DoneMU /\ (TargetFailed \/ UploadFailed \/ PatchTransportFailed))
    => FailureResponse

C4_Witness == DoneMU /\ UploadFailed /\ uploadStatus = 403 /\ FailureResponse

\* C5: once the upload has succeeded and the patch call has returned an HTTP
\* status, whatever it is, the outcome reports success.
C5_PatchStatusIgnored ==
  (DoneMU /\ uploadStatus \in {200, 201, 204} /\ calls["patch"] > 0
     /\ patchStatus # 0)
    => (response.status = 200 /\ response.success)

C5_Witness == DoneMU /\ PatchNon2xx /\ response.success

\* C6: an explainer id was supplied and the lookup gave no usable URL: no
\* download and no transcode is started, no response is sent for it, and the
\* run goes on with the credential, the upload target, the upload and the
\* patch, on the received video; if it fails, it fails in one of those.
C6_LookupFailureDegrades ==
  (MU /\ explainerVideoId /\ explainer \in {"null", "recordNoUrl"})
    => /\ calls["download"] = 0 /\ Transcodes = 0
       /\ pc \in {"credential", "authWait", "presign", "uploading", "patching",
                  "done"}
       /\ finalVideoPath = Path("upload")
       /\ uploadedFile \in {NoPath, Path("upload")}
       /\ error \in {"none", "credential", "presign", "upload", "taskData",
                     "patch"}
       /\ pc # "done" => respCount = 0

C6_Witness ==
  /\ DoneMU /\ explainerVideoId /\ explainer = "recordNoUrl"
  /\ response.success /\ uploadedFile = Path("upload")

\* C7: without an explainer id there is no lookup, no download and no
\* transcode, what is uploaded is the received video, and a success reports
\* merged = false.
C7_NoExplainerNoMerge ==
  (MU /\ ~explainerVideoId)
    => /\ calls["lookup"] = 0 /\ calls["download"] = 0 /\ Transcodes = 0
       /\ uploadedFile \in {NoPath, Path("upload")}
       /\ response.status = 200 => ~response.merged

C7_Witness ==
  /\ DoneMU /\ ~explainerVideoId /\ response.success
  /\ uploadedFile = Path("upload") /\ ~response.merged

\* C8 (as claimed): when a merge-and-upload request has ended, the cleanup
\* pass has run exactly once.
C8_CleanupExactlyOnce == DoneMU => cleanupCount = 1

\* C9 (as claimed): when getJWTToken yields no credential, the caller gets
\* status 401, on merge-and-upload and on get-inspections.
C9_NoCredential401 ==
  (pc = "done" /\ error = "credential") => response.status = 401

\* C10 (as claimed): a PUT-style upload target (url only) is uploaded to and
\* does not fail the request.
C10_PutTargetSupported ==
  (DoneMU /\ videoData \in {"putFlat", "putS3"})
    => (calls["upload"] > 0 /\ error \notin {"presign", "upload"})

(***************************************************************************)
(* downloadFile                                                             *)
(***************************************************************************)
\* the last answer to downloadFile was final (no 301, 302) and outside 2xx
TerminalNon2xx ==
  /\ downloadStatus # 0 /\ ~isRedirect(downloadStatus)
  /\ downloadStatus \notin 200..299

\* C14: a final answer whose status is outside 2xx never lets the download
\* succeed: nothing is transcoded, and the request ends with the download's
\* error (or the process ends); when downloadFile rejects for that reason the
\* destination file has been deleted.
C14_Non2xxIsError ==
  /\ TerminalNon2xx
       => /\ pc \in {"done", "crashed"}
          /\ Transcodes = 0
          /\ pc = "done" => (error = "download" /\ response.status = 500
                               /\ ~response.success)
  /\ destAtSettle # "present"
  /\ (TerminalNon2xx /\ pc = "done") => destAtSettle = "absent"

C14_Witness ==
  /\ pc = "done" /\ downloadStatus = 404 /\ hops > 0
  /\ error = "download" /\ destAtSettle = "absent"

\* C15 (as claimed): against a host that answers every request with a
\* redirect, the download gives up after a bounded number of hops: once
\* MaxHops redirects have been followed, one more redirect is not followed.
C15_RedirectLoopBounded ==
  ~(/\ pc = "downloading" /\ hops = MaxHops
    /\ ENABLED (DownloadRedirect(302) /\ pc' = "downloading"))

(***************************************************************************)
(* Timeouts and retries                                                     *)
(***************************************************************************)
\* the handler is waiting for the answer of a remote collaborator
AwaitingRemote ==
  pc \in {"lookup", "downloading", "piping", "authWait", "presign", "uploading",
          "patching"}

\* authHub.js lines 121-124: req.setTimeout(30000, ...) fires
TimeoutFires == AuthRespond("timeout", 0)

\* C17 (as claimed): whenever the handler waits for a remote collaborator, a
\* timeout can end the wait.
C17_EveryCallTimesOut == (MU /\ AwaitingRemote) => ENABLED TimeoutFires

\* the operations of one request that C18 names
OnceOps ==
  {"lookup", "auth", "presign", "upload", "patch", "stage1", "stage2", "stage3"}

\* C18: within one request each external operation is issued at most once;
\* in particular an operation that failed has not been issued again.
C18_NoRetries == \A op \in OnceOps : calls[op] <= 1

C18_Witness ==
  /\ DoneMU /\ error = "upload" /\ uploadStatus = 403
  /\ calls["upload"] = 1 /\ calls["presign"] = 1 /\ calls["auth"] = 1

(***************************************************************************)
(* mergeVideos                                                              *)
(***************************************************************************)
StageOp(k) == IF k = 1 THEN "stage1" ELSE IF k = 2 THEN "stage2" ELSE "stage3"

\* mergeVideos was called and has returned or thrown
MergeReturned ==
  calls["stage1"] > 0 /\ pc \notin {"stage1", "stage2", "stage3"}

\* a stage failing aborts the merge: a later stage is started only after
\* the one before it succeeded, and a merge that did not run all three
\* stages to success fails the request with status 500
MergeAborts ==
  /\ \A k \in 1..2 : calls[StageOp(k + 1)] > 0 => k \in stageOk
  /\ (MergeReturned /\ stageOk # {1, 2, 3})
       => (pc = "done" /\ error = "merge" /\ response.status = 500)
  /\ \A i \in DOMAIN needsCleanup :
       needsCleanup[i] \notin {Path("temp1"), Path("temp2")}

\* C20 (as claimed): a failing stage aborts the merge, and once mergeVideos
\* has returned or thrown neither intermediate file exists.
C20_MergeFailurePolicy ==
  /\ MergeAborts
  /\ MergeReturned => (Path("temp1") \notin fs /\ Path("temp2") \notin fs)

\* C20 (amended): a failing stage aborts the merge, and once mergeVideos has
\* returned or thrown, each intermediate file is gone unless its deletion
\* itself failed (the finally block swallows that failure).
C20_MergeFailurePolicyBestEffort ==
  /\ MergeAborts
  /\ MergeReturned
       => \A p \in {Path("temp1"), Path("temp2")} :
            p \notin unlinkFails => p \notin fs

C20_Witness ==
  /\ DoneMU /\ error = "merge" /\ stageOk = {1} /\ calls["stage2"] = 1
  /\ calls["stage3"] = 0 /\ Path("temp1") \notin fs /\ Path("temp2") \notin fs
  /\ unlinkFails = {}

(***************************************************************************)
(* The order of the stages                                                  *)
(***************************************************************************)
\* C21 (as claimed): a failed explainer download does not fail the request:
\* no merge-and-upload run ends with status 500 because of the download.
C21_DownloadFailureSoft ==
  DoneMU => ~(error = "download" /\ response.status = 500)

needsCleanupSet == {needsCleanup[i] : i \in DOMAIN needsCleanup}

\* the operation has been answered, has failed or has ended
Completed(op) ==
  IF op = "lookup" THEN explainer # "none"
  ELSE IF op = "download"
    THEN calls["stage1"] > 0 \/ error = "download"
  ELSE IF op \in {"stage1", "stage2", "stage3"}
    THEN StageOf(op) \in stageOk \/ error = "merge"
  ELSE IF op = "auth" THEN jwtToken # "" \/ error = "credential"
  ELSE IF op = "presign" THEN videoData # "none" \/ error = "presign"
  ELSE IF op = "upload" THEN uploadStatus # 0 \/ error = "upload"
  ELSE patchStatus # 0 \/ error = "patch"

\* the external operations of a merge-and-upload run that are under way
InFlight ==
  {op \in Ops \ {"search", "inspections"} : calls[op] > 0 /\ ~Completed(op)}

\* C22: in a merge-and-upload run at most one external operation is under
\* way; transcode stage 1 starts only after the download has ended with the
\* file written, the upload target is requested and the upload starts only
\* after a merge that was begun has run its three stages, and the patch is
\* issued only after the upload was answered with a success status.
C22_StagesSequential ==
  MU => /\ Cardinality(InFlight) <= 1
        /\ calls["stage1"] > 0
             => (downloadStatus = 200 /\ Path("explainer") \in needsCleanupSet)
        /\ (calls["presign"] > 0 \/ calls["upload"] > 0)
             => (calls["download"] > 0 => stageOk = {1, 2, 3})
        /\ calls["upload"] > 0 => Completed("presign")
        /\ calls["patch"] > 0 => uploadStatus \in {200, 201, 204}

C22_Witness ==
  /\ DoneMU /\ response.success /\ stageOk = {1, 2, 3}
  /\ calls["download"] = 1 /\ calls["patch"] = 1 /\ InFlight = {}

\* the run has failed: its catch block was entered, or it was answered with
\* a status other than 200
Failed == MU /\ (error # "none" \/ (pc = "done" /\ response.status # 200))

\* C23: once a merge-and-upload run has failed, no external operation is
\* started any more and the run stays failed and unsuccessful; a run that
\* reports success has had its metadata patch answered.
C23_FailedAbsorbing ==
  [][/\ Failed => (calls' = calls /\ Failed' /\ ~response'.success)
     /\ (MU' /\ response'.success) => (calls'["patch"] = 1 /\ patchStatus' # 0)]_vars

C23_Witness ==
  /\ DoneMU /\ error = "upload" /\ writeFinished /\ calls["patch"] = 0
  /\ response.status = 500

(***************************************************************************)
(* The credential cache and the cleanup pass                                *)
(***************************************************************************)
\* the entry is not stale: the cache TTL it was stored with has not elapsed,
\* and if an expiry was declared, it is more than the buffer away
Fresh(entry) ==
  /\ entry # NoEntry
  /\ now < entry.cacheExpiresAt
  /\ entry.tokenExpiresAt # 0 => now + TOKEN_EXPIRY_BUFFER_MS < entry.tokenExpiresAt

\* C24: a call of getJWTToken returns the cached token, leaving the cache
\* alone and asking nobody, exactly when the entry of the tenant is not
\* stale; otherwise the entry is removed and the fetch from the provider is
\* entered (it asks the Auth Hub, or fails at once if no app key is set),
\* and a fetched token is stored with the TTL counted from now.
C24_CacheOnlyWhileFresh ==
  [][/\ (pc = "credential" /\ pc' # "credential")
          => IF Fresh(tokenCache[shopId])
               THEN /\ jwtToken' = tokenCache[shopId].token
                    /\ tokenCache' = tokenCache
                    /\ calls'["auth"] = calls["auth"]
               ELSE /\ tokenCache'[shopId] = NoEntry
                    /\ jwtToken' = ""
                    /\ \/ calls'["auth"] = calls["auth"] + 1 /\ pc' = "authWait"
                       \/ error' = "credential"
     /\ (pc = "authWait" /\ jwtToken' # "")
          => /\ tokenCache'[shopId].token = jwtToken'
             /\ tokenCache'[shopId].cacheExpiresAt = now + CACHE_TTL_MS]_vars

\* a fresh entry with a declared expiry was returned
C24_Witness ==
  /\ pc = "presign" /\ calls["auth"] = 0 /\ jwtToken = "jwt"
  /\ now < tokenCache[shopId].cacheExpiresAt
  /\ tokenCache[shopId].tokenExpiresAt > now + TOKEN_EXPIRY_BUFFER_MS

\* C25: a cleanup pass deletes every listed file whose own deletion does
\* not fail, wherever in the list a failing deletion comes, and the handler
\* goes on to answer: the failure is not raised.
C25_CleanupBestEffort ==
  (DoneMU /\ cleanupCount > 0)
    => /\ \A p \in needsCleanupSet : p \notin unlinkFails => p \notin fs
       /\ respCount = 1

\* the first file of the list could not be deleted, the later ones were
C25_Witness ==
  /\ DoneMU /\ cleanupCount = 1 /\ Len(needsCleanup) = 3
  /\ needsCleanup[1] \in unlinkFails /\ needsCleanup[1] \in fs
  /\ stageOk = {1, 2, 3} /\ needsCleanup[3] \notin fs

(***************************************************************************)
(* The parse result and the answer                                          *)
(***************************************************************************)
\* C28 (as claimed): whenever parseMultipart has resolved for a request with
\* a videoFile part, the parse result names the file written, the file is on
\* the cleanup list, and the request is not refused for a missing video.
C28_ParseResultHasVideo ==
  (MU /\ hasVideoPart /\ pc \notin {"idle", "parsing"} /\ error # "parse")
    => /\ parsedVideoFile = Path("upload")
       /\ Path("upload") \in needsCleanupSet
       /\ response.error # "No video file uploaded"

\* C29 (as claimed): a merge-and-upload request is answered at most once and
\* never gets into a state in which no answer can follow any more: a
\* promise nothing will settle, or the process ended by an unhandled 'error'
\* event.  No deletion fails in the runs looked at.
C29_AnsweredExactlyOnce ==
  (MU /\ unlinkFails = {}) => (respCount <= 1 /\ pc \notin {"hung", "crashed"})

(***************************************************************************)
(* The inputs of a merge                                                    *)
(***************************************************************************)
\* C26 (as claimed): while a transcode stage 1 is under way, both input
\* files exist and hold at least one byte.  (The output path is new in every
\* run of the model: one request, an empty scratch directory.)
C26_MergeInputsNonEmpty ==
  pc = "stage1"
    => /\ {Path("upload"), Path("explainer")} \subseteq fs
       /\ emptyFiles \cap {Path("upload"), Path("explainer")} = {}
       /\ Path("merged") \notin fs

(***************************************************************************)
(* uploadToS3Form on its own: the multipart body it builds from s3Fields,   *)
(* s3Key and the file, the Content-Length it declares, the bytes it writes  *)
(* to the request, and how its promise settles.  A text is a sequence of    *)
(* atoms: a part header, a character of a value (a code point), a literal   *)
(* ASCII string, the file part's header, or the closing boundary.           *)
(***************************************************************************)
\* the field names and the characters of values the signing authority may send
FieldNames == {"1", "policy", "key"}
CodePoints == {97, 233}
Values == {<<c>> : c \in CodePoints}

\* property names that are array indices, in ascending numeric order
IndexKeys == <<"1">>

RECURSIVE SeqsUpTo(_, _)
SeqsUpTo(S, n) ==
  IF n = 0 THEN {<<>>}
  ELSE LET shorter == SeqsUpTo(S, n - 1)
       IN shorter \cup {Append(q, x) : q \in shorter, x \in S}

Names(fields) == [i \in DOMAIN fields |-> fields[i][1]]
Distinct(q) == \A i, j \in DOMAIN q : i # j => q[i] # q[j]

\* the objects JSON.parse can produce for s3.fields: no name twice
FieldLists ==
  {f \in SeqsUpTo(FieldNames \X Values, MaxFields) : Distinct(Names(f))}

\* line 231: Object.entries(s3Fields) enumerates array-index names first, in
\* ascending order, then the other names in the order they were created
ObjectEntries(fields) ==
  LET IsIndex(n) == \E i \in DOMAIN IndexKeys : IndexKeys[i] = n
      Present(n) == \E i \in DOMAIN fields : fields[i][1] = n
      NotIndex(e) == ~IsIndex(e[1])
      ValueOf(n) == fields[CHOOSE i \in DOMAIN fields : fields[i][1] = n][2]
      indices == SelectSeq(IndexKeys, Present)
  IN [i \in DOMAIN indices |-> <<indices[i], ValueOf(indices[i])>>]
       \o SelectSeq(fields, NotIndex)

Atom(kind, str, cp) == [kind |-> kind, s |-> str, cp |-> cp]
Chars(value) == [i \in DOMAIN value |-> Atom("chr", "", value[i])]
Lit(str) == <<Atom("lit", str, 0)>>

\* lines 232, 236, 239: --boundary CRLF Content-Disposition: form-data;
\* name="<name>" CRLF CRLF <value> CRLF
FormPart(name, valueText) == <<Atom("open", name, 0)>> \o valueText \o Lit("\r\n")

RECURSIVE JoinParts(_)
JoinParts(entries) ==
  IF entries = <<>> THEN <<>>
  ELSE FormPart(Head(entries)[1], Chars(Head(entries)[2]))
         \o JoinParts(Tail(entries))

\* lines 228-239: formParts.join('')
formParts(fields, key, contentType) ==
  JoinParts(ObjectEntries(fields))
    \o FormPart("key", Chars(key))
    \o FormPart("Content-Type", Lit(contentType))

\* line 242 and line 243
fileHeader == <<Atom("fileOpen", "file", 0)>>
fileFooter == <<Atom("close", "", 0)>>

\* the ASCII length of "--" boundary CRLF Content-Disposition: form-data;
\* name="" CRLF CRLF, of the file part's header for video/mp4, and of
\* CRLF "--" boundary "--" CRLF; the boundary is ----FormBoundary and the 13
\* digits of Date.now()
PartHeaderLen == 76
FileHeaderLen == 127
FooterLen == 37

\* the UTF-8 encoding of a code point: 1 to 4 bytes
Utf8Len(cp) == IF cp < 128 THEN 1 ELSE IF cp < 2048 THEN 2
               ELSE IF cp < 65536 THEN 3 ELSE 4
\* the UTF-16 code units of a code point: what String.length counts
Utf16Len(cp) == IF cp < 65536 THEN 1 ELSE 2

\* the bytes an atom occupies on the wire
AtomBytes(a) ==
  IF a.kind = "chr" THEN Utf8Len(a.cp)
  ELSE IF a.kind = "open" THEN PartHeaderLen + Len(a.s)
  ELSE IF a.kind = "fileOpen" THEN FileHeaderLen
  ELSE IF a.kind = "close" THEN FooterLen
  ELSE Len(a.s)

\* the length of the string an atom stands for
AtomUnits(a) == IF a.kind = "chr" THEN Utf16Len(a.cp) ELSE AtomBytes(a)

RECURSIVE ByteCount(_)
ByteCount(text) ==
  IF text = <<>> THEN 0 ELSE AtomBytes(Head(text)) + ByteCount(Tail(text))

RECURSIVE UnitCount(_)
UnitCount(text) ==
  IF text = <<>> THEN 0 ELSE AtomUnits(Head(text)) + UnitCount(Tail(text))

\* a buffer handed to req.write: its text (or, for a chunk of the file, the
\* number of file bytes) and its length in bytes
Buffer(text, fileBytes) ==
  [atoms |-> text, file |-> fileBytes, length |-> ByteCount(text) + fileBytes]

\* a faulty variant: the length of the string is taken for the length of
\* its encoding
StringLength(text) == UnitCount(text)

\* lines 245-246: Buffer.from(string).length, the length of the UTF-8 encoding
BufferLength(text) == Buffer(text, 0).length

\* line 247
totalLength(pre, fileSize, post) ==
  BufferLength(pre) + fileSize + BufferLength(post)

RECURSIVE Written(_)
\* the bytes written to the request so far
Written(body) ==
  IF body = <<>> THEN 0 ELSE Head(body).length + Written(Tail(body))

InitForm ==
  /\ MainInit /\ unlinkFails = {} /\ supabaseConfigured /\ tokenCache["s1"] = NoEntry
  /\ PathIdle /\ RunIdle /\ MergeOnlyIdle
  /\ fmPhase = "idle"
  /\ fmSupplied \in FieldLists
  /\ fmKey \in Values
  /\ fmFileSize \in 0..MaxFileSize
  /\ fmDeclared = 0 /\ fmBody = <<>> /\ fmRead = 0
  /\ fmResponse = NoResponse /\ fmResult = NoResult

\* lines 220-264 and 273-275: the synchronous part of uploadToS3Form, up to
\* req.write(preFileBuffer) and the opening of the read stream
FormStart ==
  /\ fmPhase = "idle"
  /\ LET pre == formParts(fmSupplied, fmKey, "video/mp4") \o fileHeader
     IN /\ fmDeclared' = totalLength(pre, fmFileSize, fileFooter)
        /\ fmBody' = <<Buffer(pre, 0)>>
  /\ fmPhase' = "streaming"
  /\ UNCHANGED <<mainVars, mergeOnlyVars, pathVars, runVars, fmSupplied, fmKey, fmFileSize,
                 fmRead, fmResponse, fmResult>>

\* line 276: fileStream.on('data', chunk => req.write(chunk))
FileData(n) ==
  /\ fmPhase = "streaming"
  /\ n \in 1..(fmFileSize - fmRead)
  /\ fmBody' = Append(fmBody, Buffer(<<>>, n))
  /\ fmRead' = fmRead + n
  /\ UNCHANGED <<mainVars, mergeOnlyVars, pathVars, runVars, fmPhase, fmSupplied, fmKey,
                 fmFileSize, fmDeclared, fmResponse, fmResult>>

\* lines 277-280: fileStream.on('end'): req.write(postFileBuffer); req.end()
FileEnd ==
  /\ fmPhase = "streaming"
  /\ fmRead = fmFileSize
  /\ fmBody' = Append(fmBody, Buffer(fileFooter, 0))
  /\ fmPhase' = "sent"
  /\ UNCHANGED <<mainVars, mergeOnlyVars, pathVars, runVars, fmSupplied, fmKey, fmFileSize,
                 fmDeclared, fmRead, fmResponse, fmResult>>

\* Promise semantics: only the first resolve or reject counts
Settle(result) == fmResult' = IF fmResult = NoResult THEN result ELSE fmResult

\* line 281: fileStream.on('error', reject); the request is never ended
FileError ==
  /\ fmPhase = "streaming"
  /\ fmPhase' = "aborted"
  /\ Settle([kind |-> "rejected", status |-> 0, body |-> "read error"])
  /\ UNCHANGED <<mainVars, mergeOnlyVars, pathVars, runVars, fmSupplied, fmKey, fmFileSize,
                 fmDeclared, fmBody, fmRead, fmResponse>>

\* line 270: req.on('error', reject); no response follows
FormRequestError ==
  /\ fmPhase \in {"streaming", "sent"}
  /\ fmResponse = NoResponse
  /\ fmPhase' = "aborted"
  /\ Settle([kind |-> "rejected", status |-> 0, body |-> "request error"])
  /\ UNCHANGED <<mainVars, mergeOnlyVars, pathVars, runVars, fmSupplied, fmKey, fmFileSize,
                 fmDeclared, fmBody, fmRead, fmResponse>>

\* lines 257-268: the response has ended (the storage host may answer before
\* the body is complete)
FormRespond(status, data) ==
  /\ fmPhase \in {"streaming", "sent"}
  /\ fmResponse = NoResponse
  /\ fmResponse' = [status |-> status, body |-> data]
  /\ IF uploadSucceeds(status)
       THEN Settle([kind |-> "resolved", status |-> 0, body |-> ""])
       ELSE Settle([kind |-> "rejected", status |-> status, body |-> data])
  /\ UNCHANGED <<mainVars, mergeOnlyVars, pathVars, runVars, fmPhase, fmSupplied, fmKey,
                 fmFileSize, fmDeclared, fmBody, fmRead>>

NextForm ==
  \/ FormStart
  \/ \E n \in 1..MaxFileSize : FileData(n)
  \/ FileEnd
  \/ FileError
  \/ FormRequestError
  \/ \E status \in {200, 201, 202, 204, 403}, data \in {"", "<Error>"} :
       FormRespond(status, data)

SpecForm == InitForm /\ [][NextForm]_vars

\* the file chunks and the part headers of the emitted body, in the order
\* they were written: the name of each part, "--" for the closing boundary
RECURSIVE TextOutline(_)
TextOutline(text) ==
  IF text = <<>> THEN <<>>
  ELSE LET a == Head(text)
       IN (IF a.kind \in {"open", "fileOpen"} THEN <<a.s>>
           ELSE IF a.kind = "close" THEN <<"--">> ELSE <<>>)
          \o TextOutline(Tail(text))

RECURSIVE Outline(_)
Outline(body) ==
  IF body = <<>> THEN <<>>
  ELSE TextOutline(Head(body).atoms) \o Outline(Tail(body))

\* C11 (as claimed): the body sent holds one part for each signed field, in
\* the order the signing authority supplied them, then key, then
\* Content-Type, then the file part, then the closing boundary, and nothing
\* else.
C11_PartsInSuppliedOrder ==
  fmPhase = "sent"
    => Outline(fmBody)
         = Names(fmSupplied) \o <<"key", "Content-Type", "file", "--">>

\* C12: the Content-Length declared before anything is written is never
\* exceeded by what is written, and once the request has been ended it is
\* exactly the number of bytes written: the encoded text parts and file
\* header, the bytes streamed from the file, and the closing boundary.
C12_DeclaredLengthIsWritten ==
  /\ fmPhase # "idle" => Written(fmBody) <= fmDeclared
  /\ fmPhase = "sent"
       => /\ Written(fmBody) = fmDeclared
          /\ fmRead = fmFileSize
          /\ fmDeclared = fmBody[1].length + fmFileSize + FooterLen

C12_Witness ==
  /\ fmPhase = "sent" /\ fmFileSize = MaxFileSize /\ Len(fmBody) = 2 + MaxFileSize
  /\ Len(fmSupplied) = MaxFields
  /\ \E i \in DOMAIN fmSupplied : fmSupplied[i][2] = <<233>>

TailLength == 200

\* what one 'data' event of stderr can carry: a run of one character
ChunkLengths == {90, 120}
ChunkChars == {"e", "t"}

\* line 70: data.toString().match(/time=(\d+:\d+:\d+\.\d+)/); a chunk of "t"
\* stands for output that holds a time= marker
timeMatch(ch) == ch = "t"

\* a faulty variant: a progress marker settles the promise as a success
progressScanResolves(matched, result) ==
  IF matched /\ result = NoExit
    THEN [kind |-> "resolved", code |-> -1, tail |-> <<>>]
    ELSE result

\* lines 70-71: the match is only logged; the promise is not touched
progressScan(matched, result) == result
Chunk(ch, n) == [i \in 1..n |-> ch]

\* the codes 'close' reports for a process that ran
ExitCodes == {0, 1, 255}

\* a faulty variant: the first 200 characters are kept
sliceFirst(str) == IF Len(str) > TailLength THEN SubSeq(str, 1, TailLength) ELSE str

\* line 76: String.prototype.slice(-200)
sliceLast(str) ==
  IF Len(str) > TailLength
    THEN SubSeq(str, Len(str) - TailLength + 1, Len(str))
    ELSE str

\* a faulty variant: only code 1 is a failure
closeResolvesUnlessOne(code) == code # 1

\* line 75: code === 0
closeResolves(code) == code = 0

\* Promise semantics: only the first resolve or reject counts
SettleRun(result) == ffResult' = IF ffResult = NoExit THEN result ELSE ffResult

InitRun ==
  /\ MainInit /\ unlinkFails = {} /\ supabaseConfigured /\ tokenCache["s1"] = NoEntry
  /\ FormIdle /\ PathIdle /\ RunIdle /\ MergeOnlyIdle

\* line 65: spawn('ffmpeg', args) starts the process
RunSpawn ==
  /\ ffPhase = "idle"
  /\ ffPhase' = "running"
  /\ UNCHANGED <<mainVars, mergeOnlyVars, formVars, pathVars, ffStderr, ffCode, ffProgress,
                 ffResult>>

\* line 79: the process could not be started; 'error' is emitted: reject(err)
RunSpawnError ==
  /\ ffPhase = "idle"
  /\ ffPhase' = "spawnFailed"
  /\ SettleRun([kind |-> "rejectedSpawn", code |-> -1, tail |-> <<>>])
  /\ UNCHANGED <<mainVars, mergeOnlyVars, formVars, pathVars, ffStderr, ffCode, ffProgress>>

\* lines 68-72: stderr += data.toString()
RunStderr(ch, n) ==
  /\ ffPhase = "running"
  /\ Len(ffStderr) + n <= MaxChunks * 120
  /\ ffStderr' = ffStderr \o Chunk(ch, n)
  /\ ffProgress' = IF timeMatch(ch) THEN ffProgress + 1 ELSE ffProgress
  /\ ffResult' = progressScan(timeMatch(ch), ffResult)
  /\ UNCHANGED <<mainVars, mergeOnlyVars, formVars, pathVars, ffPhase, ffCode>>

\* lines 74-77: 'close' after the process ran, or (with a negative code)
\* after it could not be started
RunClose(code) ==
  /\ \/ ffPhase = "running" /\ code \in ExitCodes /\ ffPhase' = "closed"
     \/ ffPhase = "spawnFailed" /\ code = -2 /\ ffPhase' = "closedUnstarted"
  /\ ffCode' = code
  /\ IF closeResolves(code)
       THEN SettleRun([kind |-> "resolved", code |-> -1, tail |-> <<>>])
       ELSE SettleRun([kind |-> "rejected", code |-> code,
                       tail |-> sliceLast(ffStderr)])
  /\ UNCHANGED <<mainVars, mergeOnlyVars, formVars, pathVars, ffStderr, ffProgress>>

NextRun ==
  \/ RunSpawn
  \/ RunSpawnError
  \/ \E ch \in ChunkChars, n \in ChunkLengths : RunStderr(ch, n)
  \/ \E code \in ExitCodes \cup {-2} : RunClose(code)

SpecRun == InitRun /\ [][NextRun]_vars

\* tail is the last TailLength characters of str, or all of str if it is shorter
IsLastChars(tail, str) ==
  /\ Len(tail) = (IF Len(str) < TailLength THEN Len(str) ELSE TailLength)
  /\ \A i \in 1..Len(tail) : tail[Len(tail) + 1 - i] = str[Len(str) + 1 - i]

\* C19: runFFmpeg succeeds exactly when the process exits with code 0; any
\* other exit code is an error carrying that code and the last 200
\* characters captured from stderr; a process that could not be started is
\* an error too (nothing was captured, and there is no exit code to carry).
C19_SuccessIffExitZero ==
  /\ ffResult.kind = "resolved" <=> (ffPhase = "closed" /\ ffCode = 0)
  /\ (ffPhase = "closed" /\ ffCode # 0)
       => /\ ffResult.kind = "rejected"
          /\ ffResult.code = ffCode
          /\ IsLastChars(ffResult.tail, ffStderr)
  /\ ffPhase \in {"spawnFailed", "closedUnstarted"}
       => (ffResult.kind = "rejectedSpawn" /\ ffStderr = <<>>)
  /\ ffPhase \in {"idle", "running"} => ffResult = NoExit

C19_Witness ==
  /\ ffPhase = "closed" /\ ffCode = 255 /\ Len(ffStderr) > TailLength
  /\ ffResult.kind = "rejected" /\ Len(ffResult.tail) = TailLength
  /\ ffResult.tail[1] # ffResult.tail[TailLength]

(***************************************************************************)
(* The scratch paths of two merge-and-upload requests that are in flight   *)
(* at the same time.  Each request names its files after Date.now() at the  *)
(* moment its handler reaches the line; the handlers of the two requests    *)
(* interleave at their awaits, and the clock may or may not have moved on   *)
(* between two of their steps.                                              *)
(***************************************************************************)
Invocations == {1, 2}

\* info.filename of the uploaded part
FileNames == {"a.mp4", "video.mp4"}

\* line 156: upload-${Date.now()}-${info.filename || 'video.mp4'}
uploadPath(ms, filename) == [kind |-> "upload", ts |-> ms, name |-> filename]

\* lines 535, 542, 94, 95: <kind>-${Date.now()} and a fixed extension
scratchPath(kind, ms) == [kind |-> kind, ts |-> ms, name |-> ""]

InitPaths ==
  /\ MainInit /\ unlinkFails = {} /\ supabaseConfigured /\ tokenCache["s1"] = NoEntry
  /\ FormIdle /\ PathIdle /\ RunIdle /\ MergeOnlyIdle

\* a millisecond passes
PathTick ==
  /\ ptClock < MaxClock
  /\ ptClock' = ptClock + 1
  /\ UNCHANGED <<mainVars, mergeOnlyVars, formVars, runVars, ptStep, ptPaths>>

\* lines 154-157: busboy's 'file' event of request i
AllocUpload(i, filename) ==
  /\ ptStep[i] = 0
  /\ ptPaths' = [ptPaths EXCEPT ![i] = @ \cup {uploadPath(ptClock, filename)}]
  /\ ptStep' = [ptStep EXCEPT ![i] = 1]
  /\ UNCHANGED <<mainVars, mergeOnlyVars, formVars, runVars, ptClock>>

\* lines 535-536: the lookup of request i has returned an explainer
AllocExplainer(i) ==
  /\ ptStep[i] = 1
  /\ ptPaths' = [ptPaths EXCEPT ![i] = @ \cup {scratchPath("explainer", ptClock)}]
  /\ ptStep' = [ptStep EXCEPT ![i] = 2]
  /\ UNCHANGED <<mainVars, mergeOnlyVars, formVars, runVars, ptClock>>

\* lines 542-545 and 94-95: the download of request i has finished;
\* mergedPath, tempVideo1 and tempVideo2 are named in one synchronous run
AllocMerge(i) ==
  /\ ptStep[i] = 2
  /\ ptPaths' = [ptPaths EXCEPT ![i] = @ \cup {scratchPath("merged", ptClock),
                                              scratchPath("temp1", ptClock),
                                              scratchPath("temp2", ptClock)}]
  /\ ptStep' = [ptStep EXCEPT ![i] = 3]
  /\ UNCHANGED <<mainVars, mergeOnlyVars, formVars, runVars, ptClock>>

NextPaths ==
  \/ PathTick
  \/ \E i \in Invocations, filename \in FileNames : AllocUpload(i, filename)
  \/ \E i \in Invocations : AllocExplainer(i)
  \/ \E i \in Invocations : AllocMerge(i)

SpecPaths == InitPaths /\ [][NextPaths]_vars

\* C16 (as claimed): the scratch paths generated by two requests in flight
\* at the same time are pairwise distinct.
C16_ScratchPathsDistinct == ptPaths[1] \cap ptPaths[2] = {}

\* how runFFmpeg has settled, as far as the caller's next step goes
Verdict == IF ffResult.kind = "rejectedSpawn" THEN "rejected" ELSE ffResult.kind

\* the verdict that goes with the process outcome alone
VerdictOf(phase, code) ==
  IF phase \in {"idle", "running"} THEN "pending"
  ELSE IF phase = "closed" /\ code = 0 THEN "resolved"
  ELSE "rejected"

\* C27: the verdict of runFFmpeg is a function of the process outcome (not
\* started, running, exit code, start failure): whatever chunks stderr
\* delivered, with or without time= markers, and however many Progress
\* lines were logged, two runs with the same outcome have the same verdict.
C27_ProgressScanObservabilityOnly ==
  /\ Verdict = VerdictOf(ffPhase, ffCode)
  /\ ffProgress > 0 => ffPhase \in {"running", "closed"}

\* a run with markers that failed, and so differs from a run without
\* markers only in its output
C27_Witness ==
  /\ ffPhase = "closed" /\ ffCode = 1 /\ ffProgress = 2
  /\ Len(ffStderr) > TailLength /\ Verdict = "rejected"

(***************************************************************************)
(* POST /merge-only: parse, look the explainer up, download it, merge, and  *)
(* stream the merged file back.  The download and the merge are taken as    *)
(* one step each (their parts are followed in Spec).                        *)
(***************************************************************************)
InitMergeOnly ==
  /\ MainInit /\ tokenCache["s1"] = NoEntry
  /\ FormIdle /\ PathIdle /\ RunIdle
  /\ moPc = "idle" /\ moHasVideo = FALSE /\ moHasId = FALSE /\ moFs = {}
  /\ moNeedsCleanup = <<>> /\ moStatus = 0

\* res.status(s).json(...), or the end of the streamed response
MOEnd(status, fsys) ==
  /\ moStatus' = status
  /\ moFs' = fsys
  /\ moPc' = "done"

\* lines 704-711: catch (error): cleanup(needsCleanup), then 500
MOCatch(fsys) == MOEnd(500, cleanup(moNeedsCleanup, fsys))

\* line 661: the request arrives; busboy's 'file' event creates upload-*
MOStart(hasVideo, hasId) ==
  /\ moPc = "idle"
  /\ moHasVideo' = hasVideo
  /\ moHasId' = hasId
  /\ moFs' = IF hasVideo THEN {Path("upload")} ELSE {}
  /\ moPc' = "parsing"
  /\ UNCHANGED <<mainVars, formVars, pathVars, runVars, moNeedsCleanup, moStatus>>

\* line 662: parseMultipart rejects (busboy 'error')
MOBusboyError ==
  /\ moPc = "parsing"
  /\ MOCatch(moFs)
  /\ UNCHANGED <<mainVars, formVars, pathVars, runVars, moHasVideo, moHasId,
                 moNeedsCleanup>>

\* lines 662-678: parseMultipart resolves; `finished` says whether the write
\* stream's 'finish' came before the timer
MOParseResolve(finished) ==
  /\ moPc = "parsing"
  /\ IF ~(moHasVideo /\ finished)
       THEN \* line 666: 400 without a cleanup pass
            MOEnd(400, moFs) /\ UNCHANGED moNeedsCleanup
       ELSE /\ moNeedsCleanup' = <<Path("upload")>>
            /\ IF ~moHasId
                 THEN MOEnd(400, cleanup(moNeedsCleanup', moFs))
                 ELSE moPc' = "lookup" /\ UNCHANGED <<moFs, moStatus>>
  /\ UNCHANGED <<mainVars, formVars, pathVars, runVars, moHasVideo, moHasId>>

\* lines 677-689: the lookup returns; 404 after a cleanup pass, or the
\* download starts and opens explainer-*
MOLookupReturn(o) ==
  /\ moPc = "lookup"
  /\ o \in LookupOutcomes
  /\ IF ~Usable(getExplainerVideoUrl(o))
       THEN MOEnd(404, cleanup(moNeedsCleanup, moFs)) /\ UNCHANGED moNeedsCleanup
       ELSE /\ moNeedsCleanup' = Append(moNeedsCleanup, Path("explainer"))
            /\ moFs' = moFs \cup {Path("explainer")}
            /\ moPc' = "downloading"
            /\ UNCHANGED moStatus
  /\ UNCHANGED <<mainVars, formVars, pathVars, runVars, moHasVideo, moHasId>>

\* line 689: how downloadFile ends
MODownloadOutcomes == {"finish", "badStatus", "requestError"}

\* lines 689-694: the download ends; on success mergeVideos is called
MODownloadEnd(o) ==
  /\ moPc = "downloading"
  /\ o \in MODownloadOutcomes
  /\ IF o = "finish"
       THEN /\ moNeedsCleanup' = Append(moNeedsCleanup, Path("merged"))
            /\ moPc' = "merging"
            /\ UNCHANGED <<moFs, moStatus>>
       ELSE IF o = "badStatus" /\ Path("explainer") \in unlinkFails
         THEN \* unlinkSync throws inside the response callback
              moPc' = "crashed" /\ UNCHANGED <<moFs, moStatus, moNeedsCleanup>>
         ELSE MOCatch(unlinkSync(Path("explainer"), moFs))
                /\ UNCHANGED moNeedsCleanup
  /\ UNCHANGED <<mainVars, formVars, pathVars, runVars, moHasVideo, moHasId>>

\* lines 694-701: mergeVideos returns and the merged file is piped to the
\* response, or it throws; `wrote` says whether the output file was created
MOMergeEnd(ok, wrote) ==
  /\ moPc = "merging"
  /\ ok => wrote
  /\ LET after == mergeFinally(IF wrote THEN moFs \cup {Path("merged")} ELSE moFs)
     IN IF ok
          THEN moPc' = "streaming" /\ moFs' = after /\ UNCHANGED moStatus
          ELSE MOCatch(after)
  /\ UNCHANGED <<mainVars, formVars, pathVars, runVars, moHasVideo, moHasId,
                 moNeedsCleanup>>

\* lines 702-704: fileStream.on('end'): cleanup(needsCleanup); pipe ends
\* the response
MOStreamEnd ==
  /\ moPc = "streaming"
  /\ MOEnd(200, cleanup(moNeedsCleanup, moFs))
  /\ UNCHANGED <<mainVars, formVars, pathVars, runVars, moHasVideo, moHasId,
                 moNeedsCleanup>>

\* the client goes away, or the response errors, before the file stream has
\* ended: pipe stops reading, 'end' never comes, nothing else is listening
MOResponseAborted ==
  /\ moPc = "streaming"
  /\ MOEnd(200, moFs)
  /\ UNCHANGED <<mainVars, formVars, pathVars, runVars, moHasVideo, moHasId,
                 moNeedsCleanup>>

NextMergeOnly ==
  \/ \E hasVideo, hasId \in BOOLEAN : MOStart(hasVideo, hasId)
  \/ MOBusboyError
  \/ \E finished \in BOOLEAN : MOParseResolve(finished)
  \/ \E o \in LookupOutcomes : MOLookupReturn(o)
  \/ \E o \in MODownloadOutcomes : MODownloadEnd(o)
  \/ \E ok, wrote \in BOOLEAN : MOMergeEnd(ok, wrote)
  \/ MOStreamEnd
  \/ MOResponseAborted

SpecMergeOnly == InitMergeOnly /\ [][NextMergeOnly]_vars

\* C30 (as claimed): when a merge-only request has ended, none of its
\* scratch files is left on disk.  Stated for runs in which no deletion
\* fails.
C30_MergeOnlyCleansUp == (moPc = "done" /\ unlinkFails = {}) => moFs = {}

====
